---- MODULE Spec2Model ----
(***************************************************************************)
(* NEAR event -> PagerDuty alert bridge (near_pagerduty_bridge.py).        *)
(*                                                                         *)
(* Specifications over one set of variables:                               *)
(*   Spec     the monitor: one monitor_single_stream task per alert of the *)
(*            configuration, each a reconnect loop around an               *)
(*            IntearEventStream, dispatching through process_event and     *)
(*            PagerDutyClient.trigger; FairSpec adds the fairness of the   *)
(*            recovery steps (close returns, the sleep timer fires).       *)
(*   SoloSpec, FairSoloSpec                                                *)
(*            the same monitor run with a configuration of one alert.      *)
(*   MainSpec the program from main(): the routing key is read from the     *)
(*            environment, and the monitor runs if it is set.              *)
(*   FmtSpec  the pure functions format_event_summary, get_dedup_key,      *)
(*            get_explorer_link, process_event and PagerDutyClient.trigger *)
(*            applied to inputs drawn from bounded sets.                   *)
(*                                                                         *)
(* Python values are modelled as follows.  A str is a TLA+ string.  An     *)
(* event (a JSON object) is a function from the field names it carries to  *)
(* strings.  A format template is a sequence of parts, a literal text or a *)
(* named replacement field.  The result of a call is a record              *)
(* [kind, val]: kind "str" (val the string), "none" (Python None) or       *)
(* "raise" (val the exception's class name).                               *)
(***************************************************************************)
EXTENDS Integers, Sequences, FiniteSets, TLC

VARIABLES
    config,      \* the EventMonitorConfig monitor_events was called with
    sup,         \* per task of monitor_events: the state of monitor_single_stream
                 \*   pc          where the coroutine is suspended
                 \*   ws, session stream.ws, stream.session ("none", "open", "closed")
                 \*   fail        what ended the try block of this iteration
                 \*   recvd       every event received, in receipt order
                 \*   cur         index in recvd of the event the for loop is at
                 \*               (0: no batch is being processed)
                 \*   calls       the events (indices in recvd) trigger was called for,
                 \*               in call order
                 \*   inflight    the events whose trigger call has not ended yet
                 \*   closeCalled stream.close() was invoked on the current stream
    cancels,     \* number of cancellations of the process so far
    env,         \* os.environ.get("PAGERDUTY_ROUTING_KEY")
    mainpc,      \* where main() is: "start", "monitor_events" (in gather), or
                 \* the exception it raised
    pd,          \* PagerDutyClient.session: "none" or "open"
    fpc,         \* FmtSpec: "idle", or the function that was applied
    fEvent,      \* FmtSpec: the event argument
    fRule,       \* FmtSpec: the alert (rule) argument
    fOut         \* FmtSpec: what the function returned or raised

supVars == <<config, sup, cancels>>
mainVars == <<env, mainpc, pd>>
fmtVars == <<fpc, fEvent, fRule, fOut>>
vars == <<config, sup, cancels, env, mainpc, pd, fpc, fEvent, fRule, fOut>>

(***************************************************************************)
(* Bounds of the model.                                                    *)
(***************************************************************************)
\* events the upstream feed delivers over the whole run, all tasks together
MaxEvents == 2
\* cancellations delivered to the process
MaxCancels == 1

(***************************************************************************)
(* Python values.                                                          *)
(***************************************************************************)
Str(s) == [kind |-> "str", val |-> s]
NoneVal == [kind |-> "none", val |-> ""]
Raise(e) == [kind |-> "raise", val |-> e]

\* bool(x) of an Optional[str]: None and "" are falsy
Truthy(x) == x.kind = "str" /\ x.val # ""

\* a or b
PyOr(a, b) == IF Truthy(a) THEN a ELSE b

\* event.get(key)
Get(event, key) == IF key \in DOMAIN event THEN Str(event[key]) ELSE NoneVal

\* event.get(key, default)
GetDefault(event, key, default) ==
    IF key \in DOMAIN event THEN event[key] ELSE default

Lit(s) == [isFld |-> FALSE, text |-> s]
Fld(n) == [isFld |-> TRUE, text |-> n]

\* the replacement fields a template names
Placeholders(template) ==
    {template[i].text : i \in {j \in DOMAIN template : template[j].isFld}}

RECURSIVE Render(_, _)
Render(template, kwargs) ==
    IF template = <<>> THEN ""
    ELSE LET p == Head(template)
         IN  (IF p.isFld THEN kwargs[p.text] ELSE p.text)
                 \o Render(Tail(template), kwargs)

\* template.format(**kwargs): KeyError for a replacement field kwargs lacks
StrFormat(template, kwargs) ==
    IF Placeholders(template) \subseteq DOMAIN kwargs
    THEN Str(Render(template, kwargs))
    ELSE Raise("KeyError")

(***************************************************************************)
(* format_event_summary, get_dedup_key, get_explorer_link.                 *)
(***************************************************************************)
\* the keyword arguments format_event_summary passes by name
SummaryKeywords == {"alert_name", "account_id", "event_standard", "event_event"}

\* A keyword given by name and again through **event is a TypeError of the
\* call itself, raised before any formatting; only KeyError is caught.
format_event_summary(event, template, alert_name) ==
    LET account_id == GetDefault(event, "account_id", "unknown")
        named == [k \in SummaryKeywords |->
                    CASE k = "alert_name" -> alert_name
                      [] k = "account_id" -> account_id
                      [] k = "event_standard" -> GetDefault(event, "event_standard", "")
                      [] k = "event_event" -> GetDefault(event, "event_event", "")]
    IN  IF DOMAIN event \cap SummaryKeywords # {}
        THEN Raise("TypeError")
        ELSE LET r == StrFormat(template, named @@ event)
             IN  IF r.kind = "raise" /\ r.val = "KeyError"
                 THEN Str(alert_name \o ": Event from " \o account_id)
                 ELSE r

\* get_dedup_key without the receipt_id fallback
get_dedup_key_no_receipt(event, template) ==
    IF ~template.some \/ template.val = <<>>
    THEN NoneVal
    ELSE LET r == StrFormat(template.val, event)
         IN  IF r.kind = "raise" /\ r.val = "KeyError"
             THEN Get(event, "transaction_id")
             ELSE r

\* template: [some, val]; some = FALSE is None
get_dedup_key(event, template) ==
    IF ~template.some \/ template.val = <<>>
    THEN NoneVal
    ELSE LET r == StrFormat(template.val, event)
         IN  IF r.kind = "raise" /\ r.val = "KeyError"
             THEN PyOr(Get(event, "transaction_id"), Get(event, "receipt_id"))
             ELSE r

NoLink == [some |-> FALSE, href |-> "", text |-> ""]

\* get_explorer_link with the account link tried before the transaction link
get_explorer_link_account_first(event, testnet) ==
    LET base_url == IF testnet THEN "https://testnet.nearblocks.io"
                               ELSE "https://nearblocks.io"
        tx_id == Get(event, "transaction_id")
        account_id == Get(event, "account_id")
    IN  IF Truthy(account_id)
        THEN [some |-> TRUE, href |-> base_url \o "/address/" \o account_id.val,
              text |-> "View Contract"]
        ELSE IF Truthy(tx_id)
        THEN [some |-> TRUE, href |-> base_url \o "/txns/" \o tx_id.val,
              text |-> "View Transaction"]
        ELSE NoLink

get_explorer_link(event, testnet) ==
    LET base_url == IF testnet THEN "https://testnet.nearblocks.io"
                               ELSE "https://nearblocks.io"
        tx_id == Get(event, "transaction_id")
        account_id == Get(event, "account_id")
    IN  IF Truthy(tx_id)
        THEN [some |-> TRUE, href |-> base_url \o "/txns/" \o tx_id.val,
              text |-> "View Transaction"]
        ELSE IF Truthy(account_id)
        THEN [some |-> TRUE, href |-> base_url \o "/address/" \o account_id.val,
              text |-> "View Contract"]
        ELSE NoLink

(***************************************************************************)
(* AlertConfig values: the House of Stake configuration and the other      *)
(* example configurations of the source, and the dataclass defaults.       *)
(***************************************************************************)
Some(template) == [some |-> TRUE, val |-> template]
NoTemplate == [some |-> FALSE, val |-> <<>>]

HoSNewProposal ==
    [name |-> "HoS: New Proposal", event_type |-> "log_nep297",
     filter |-> "vote.dao/venear/create_proposal", severity |-> "warning",
     summary_template |->
        <<Lit("House of Stake: New proposal created by "), Fld("account_id")>>,
     dedup_key_template |-> Some(<<Lit("hos-proposal-"), Fld("transaction_id")>>),
     testnet |-> FALSE]

HoSProposalApproved ==
    [name |-> "HoS: Proposal Approved", event_type |-> "log_nep297",
     filter |-> "vote.dao/venear/proposal_approve", severity |-> "info",
     summary_template |-> <<Lit("House of Stake: Proposal approved")>>,
     dedup_key_template |-> Some(<<Lit("hos-approve-"), Fld("transaction_id")>>),
     testnet |-> FALSE]

HoSVoteCast ==
    [name |-> "HoS: Vote Cast", event_type |-> "log_nep297",
     filter |-> "vote.dao/venear/add_vote", severity |-> "info",
     summary_template |-> <<Lit("House of Stake: Vote cast on proposal")>>,
     dedup_key_template |-> Some(<<Lit("hos-vote-"), Fld("transaction_id")>>),
     testnet |-> FALSE]

\* create_function_call_config(routing_key, "your-contract.near")
FunctionCalls ==
    [name |-> "Function Calls: your-contract.near", event_type |-> "tx_transaction",
     filter |-> "receiver_id=your-contract.near", severity |-> "warning",
     summary_template |->
        <<Lit("Transaction to your-contract.near from "), Fld("signer_id")>>,
     dedup_key_template |->
        Some(<<Lit("your-contract.near-"), Fld("transaction_id")>>),
     testnet |-> FALSE]

\* an AlertConfig that leaves severity, dedup_key_template and
\* summary_template at their defaults, on testnet
DefaultsTestnet ==
    [name |-> "Testnet Watch", event_type |-> "ft_transfer",
     filter |-> "token_id=wrap.testnet", severity |-> "warning",
     summary_template |-> <<Lit("NEAR Event: "), Fld("event_type")>>,
     dedup_key_template |-> NoTemplate,
     testnet |-> TRUE]

\* an AlertConfig whose dedup_key_template is the empty string
EmptyDedup ==
    [name |-> "Receipts", event_type |-> "log_nep297",
     filter |-> "account_id=vote.dao", severity |-> "error",
     summary_template |-> <<Lit("Receipt "), Fld("receipt_id")>>,
     dedup_key_template |-> Some(<<>>),
     testnet |-> FALSE]

\* an AlertConfig whose dedup_key_template names a field other than
\* transaction_id
SignerKeyed ==
    [name |-> "Calls by signer", event_type |-> "tx_transaction",
     filter |-> "receiver_id=your-contract.near", severity |-> "critical",
     summary_template |-> <<Lit("Call "), Fld("transaction_id")>>,
     dedup_key_template |-> Some(<<Lit("call-"), Fld("signer_id")>>),
     testnet |-> FALSE]

\* literal text of 64, 256 and 1018 characters
Text64 == "NEAR governance event observed on chain; see details below ....."
Text256 == Text64 \o Text64 \o Text64 \o Text64
Text1018 == Text256 \o Text256 \o Text256 \o SubSeq(Text256, 1, 250)

\* an AlertConfig whose summary is 1018 characters of text followed by the
\* transaction and receipt ids
LongSummary ==
    [name |-> "Long summary", event_type |-> "tx_transaction",
     filter |-> "receiver_id=your-contract.near", severity |-> "warning",
     summary_template |->
        <<Lit(Text1018), Fld("transaction_id"), Fld("receipt_id")>>,
     dedup_key_template |-> NoTemplate,
     testnet |-> FALSE]

(***************************************************************************)
(* PagerDutyClient.trigger's payload and process_event.                    *)
(***************************************************************************)
SummaryLimit == 1024

\* Truncate cutting one character short
TruncateOneShort(summary) ==
    IF Len(summary) > SummaryLimit THEN SubSeq(summary, 1, SummaryLimit - 1)
    ELSE summary

\* summary[:1024]
Truncate(summary) ==
    IF Len(summary) > SummaryLimit THEN SubSeq(summary, 1, SummaryLimit)
    ELSE summary

\* The body trigger posts.  An optional key of the Python dict is a pair
\* has_<key>, <key>.  The timestamp (the wall clock) is left out.
TriggerPayload(routing_key, summary, source, severity, dedup_key, links) ==
    [routing_key |-> routing_key,
     event_action |-> "trigger",
     summary |-> Truncate(summary),
     source |-> source,
     severity |-> severity,
     client |-> "NEAR Blockchain Monitor",
     client_url |-> "https://explorer.near.org",
     has_dedup_key |-> Truthy(dedup_key),
     dedup_key |-> IF Truthy(dedup_key) THEN dedup_key.val ELSE "",
     has_links |-> links.some,
     links |-> IF links.some THEN <<links>> ELSE <<>>]

\* The parsed bodies the backend may answer with: the body of an accepted
\* event (it carries the backend-issued dedup_key), an error body, and a
\* body that is not JSON (has_json FALSE).
AcceptedBody ==
    [has_json |-> TRUE, status |-> "success", has_dedup_key |-> TRUE,
     dedup_key |-> "srv-dedup-1"]
InvalidBody ==
    [has_json |-> TRUE, status |-> "invalid event", has_dedup_key |-> FALSE,
     dedup_key |-> ""]
NotJsonBody ==
    [has_json |-> FALSE, status |-> "", has_dedup_key |-> FALSE, dedup_key |-> ""]

\* What session.post may end with: a network-level failure (status 0), or
\* a response.  Status 202 comes with the accepted body; the body of any
\* other status is whatever the far end sends.
NetworkFailure == [status |-> 0, body |-> NotJsonBody]
Responses ==
    {NetworkFailure, [status |-> 202, body |-> AcceptedBody]}
        \cup {[status |-> st, body |-> b] :
                  st \in {400, 429, 500},
                  b \in {AcceptedBody, InvalidBody, NotJsonBody}}

\* The outcome of trigger for the caller, given what the POST ended with:
\* session.post raises, resp.json() raises, or the parsed body is returned
\* (kind "return"), whatever the status: the status only selects the log
\* line.  posts is the number of POST requests made.
trigger(resp) ==
    IF resp.status = 0
    THEN [kind |-> "raise", exc |-> "ClientError", val |-> NotJsonBody,
          posts |-> 1, logged |-> "none"]
    ELSE IF ~resp.body.has_json
    THEN [kind |-> "raise", exc |-> "ContentTypeError", val |-> NotJsonBody,
          posts |-> 1, logged |-> "none"]
    ELSE [kind |-> "return", exc |-> "", val |-> resp.body, posts |-> 1,
          logged |-> IF resp.status = 202 THEN "info" ELSE "error"]

\* What process_event does with one event: it raises before trigger is
\* called, or it calls trigger once with these arguments.
process_event(event, alert) ==
    LET summary == format_event_summary(event, alert.summary_template, alert.name)
        dedup_key == get_dedup_key(event, alert.dedup_key_template)
        link == get_explorer_link(event, alert.testnet)
    IN  IF summary.kind = "raise"
        THEN [kind |-> "raise", exc |-> summary.val, ncalls |-> 0,
              summary |-> "", source |-> "", severity |-> "",
              dedup_key |-> NoneVal, links |-> NoLink]
        ELSE IF dedup_key.kind = "raise"
        THEN [kind |-> "raise", exc |-> dedup_key.val, ncalls |-> 0,
              summary |-> "", source |-> "", severity |-> "",
              dedup_key |-> NoneVal, links |-> NoLink]
        ELSE [kind |-> "trigger", exc |-> "", ncalls |-> 1,
              summary |-> summary.val,
              source |-> "near:" \o GetDefault(event, "account_id", "unknown"),
              severity |-> alert.severity,
              dedup_key |-> dedup_key,
              links |-> link]

(***************************************************************************)
(* Inputs of the pure functions.                                           *)
(***************************************************************************)
Fields == {"account_id", "transaction_id", "receipt_id", "event_standard",
           "event_event", "signer_id"}

FieldValues(f) ==
    CASE f = "account_id" -> {"vote.dao", ""}
      [] f = "transaction_id" -> {"abc123", ""}
      [] f = "receipt_id" -> {"r1", ""}
      [] f = "event_standard" -> {"venear"}
      [] f = "event_event" -> {"add_vote"}
      [] f = "signer_id" -> {"alice.near"}

AllValues == UNION {FieldValues(f) : f \in Fields}

\* every event over Fields: any subset of the fields, each with one of its values
Events ==
    UNION {{e \in [S -> AllValues] : \A f \in S : e[f] \in FieldValues(f)} :
           S \in SUBSET Fields}

FmtRules == {HoSNewProposal, HoSProposalApproved, HoSVoteCast, FunctionCalls,
             DefaultsTestnet, EmptyDedup, SignerKeyed, LongSummary}

RoutingKey == "R0UT1NGKEY"

(***************************************************************************)
(* The monitor: monitor_events and monitor_single_stream.                  *)
(***************************************************************************)
\* create_house_of_stake_config(routing_key), two of its alerts
HouseOfStakeConfig ==
    [pagerduty_routing_key |-> RoutingKey,
     alerts |-> <<HoSProposalApproved, HoSVoteCast>>,
     reconnect_delay_secs |-> 5]

\* create_function_call_config(routing_key, "your-contract.near")
FunctionCallConfig ==
    [pagerduty_routing_key |-> RoutingKey,
     alerts |-> <<FunctionCalls>>,
     reconnect_delay_secs |-> 5]

\* task ids; monitor_events creates task t for config.alerts[t]
TaskIds == {1, 2}

Tasks == DOMAIN config.alerts

Alert(t) == config.alerts[t]

\* The objects a task works with.  stream is a local of the coroutine
\* monitor_single_stream, bound to a new IntearEventStream in every
\* iteration, and ws and session are attributes of that object: they are
\* named by the task that constructed them (unbound before the first
\* iteration).  The filter is the filter of the task's own AlertConfig.
\* pd_client is the one PagerDutyClient monitor_events passes to every task.
StreamOf(t) ==
    IF sup[t].session = "none" THEN <<"unbound">> ELSE <<"IntearEventStream", t>>
FilterOf(t) == <<"filter", t, Alert(t).filter>>
ClientOf(t) == <<"PagerDutyClient", config.pagerduty_routing_key>>

\* The events the upstream feed may deliver to a task: the vote event of
\* the filter (account_id vote.dao, NEP-297 fields) and a bare transaction.
VoteEvent ==
    [f \in {"account_id", "transaction_id", "event_standard", "event_event"} |->
        CASE f = "account_id" -> "vote.dao"
          [] f = "transaction_id" -> "abc123"
          [] f = "event_standard" -> "venear"
          [] f = "event_event" -> "add_vote"]

BareTx == [f \in {"transaction_id"} |-> "abc123"]

FeedEvents == {VoteEvent, BareTx}

\* json.loads of a text frame: a list of events
Batches ==
    UNION {[1..n -> FeedEvents] : n \in 0..MaxEvents}

\* the await points of monitor_single_stream, by supervisor state
Connecting == {"connect", "send_filter"}
Streaming == {"receive", "pong", "trigger"}
Closing == {"close_ws", "close_session"}
Disconnected == Closing \cup {"sleep"}

\* asyncio.create_task(monitor_single_stream(...)): the coroutine has not run yet
NewTask ==
    [pc |-> "start", ws |-> "none", session |-> "none", fail |-> "none",
     recvd |-> <<>>, cur |-> 0, calls |-> <<>>, inflight |-> {},
     closeCalled |-> FALSE]

\* stream = IntearEventStream(...); await stream.connect(): the session is
\* created and the task waits in session.ws_connect
BeginConnect(s) ==
    [s EXCEPT !.ws = "none", !.session = "open", !.fail = "none",
              !.closeCalled = FALSE, !.cur = 0, !.pc = "connect"]

\* The try block is left with an exception (why) and the finally clause
\* awaits stream.close(): ws.close() if ws is set, then session.close().
EnterFinally(s, why) ==
    [s EXCEPT !.fail = why, !.closeCalled = TRUE,
              !.pc = IF s.ws # "none" THEN "close_ws" ELSE "close_session"]

\* AfterFinally without the reconnect delay
AfterFinallyNoSleep(s) ==
    IF s.fail = "cancel" THEN [s EXCEPT !.pc = "done"] ELSE BeginConnect(s)

\* The finally clause is over: a CancelledError raised in the try block
\* propagates and ends the task; after ConnectionError or Exception the
\* task logs and awaits asyncio.sleep(reconnect_delay).
AfterFinally(s) ==
    [s EXCEPT !.pc = IF s.fail = "cancel" THEN "done" ELSE "sleep"]

\* ProcessFrom with the rest of the batch dispatched at once, no call
\* awaited before the next starts
ProcessFromConcurrent(s, alert) ==
    IF s.cur > Len(s.recvd)
    THEN [s EXCEPT !.cur = 0, !.pc = "receive"]
    ELSE IF process_event(s.recvd[s.cur], alert).kind = "raise"
    THEN EnterFinally(s, "format_failed")
    ELSE [s EXCEPT !.calls = @ \o [i \in 1..(Len(s.recvd) - s.cur + 1) |->
                                        s.cur + i - 1],
                   !.inflight = @ \cup (s.cur..Len(s.recvd)),
                   !.cur = Len(s.recvd),
                   !.pc = "trigger"]

\* for event in events: await process_event(event, alert, pd_client), from
\* the event at s.cur up to the first await: the formatting raises, or
\* trigger posts and the task waits for the response; past the batch's
\* last event the task is back in __anext__.
ProcessFrom(s, alert) ==
    IF s.cur > Len(s.recvd)
    THEN [s EXCEPT !.cur = 0, !.pc = "receive"]
    ELSE IF process_event(s.recvd[s.cur], alert).kind = "raise"
    THEN EnterFinally(s, "format_failed")
    ELSE [s EXCEPT !.calls = Append(@, s.cur), !.inflight = @ \cup {s.cur},
                   !.pc = "trigger"]

RECURSIVE SumLen(_, _)
SumLen(f, S) ==
    IF S = {} THEN 0
    ELSE LET x == CHOOSE y \in S : TRUE
         IN  Len(f[x].recvd) + SumLen(f, S \ {x})

\* events delivered so far, all tasks together
Delivered == SumLen(sup, DOMAIN sup)

\* the trigger call the task awaits ends: it returns, raises or is cancelled
EndCall(s) ==
    [s EXCEPT !.inflight = @ \ {s.cur}]

\* CancelledError thrown into the task at the await it is suspended on.
\* It is a BaseException: in the try block neither except clause catches
\* it, the finally clause runs and it propagates; inside the finally
\* clause the bare "except: pass" around stream.close() swallows it.
CancelAt(s) ==
    CASE s.pc = "done" -> s
      [] s.pc \in {"start", "sleep"} -> [s EXCEPT !.pc = "done"]
      [] s.pc = "trigger" -> EnterFinally(EndCall(s), "cancel")
      [] s.pc \in Connecting \cup {"receive", "pong"} -> EnterFinally(s, "cancel")
      [] s.pc \in Closing -> AfterFinally(s)

Start(t) ==
    /\ t \in Tasks
    /\ sup[t].pc = "start"
    /\ sup' = [sup EXCEPT ![t] = BeginConnect(@)]
    /\ UNCHANGED <<config, cancels, mainVars, fmtVars>>

\* ConnectOk with no filter sent: the task goes on to receive
ConnectOkNoFilter(t) ==
    /\ t \in Tasks
    /\ sup[t].pc = "connect"
    /\ sup' = [sup EXCEPT ![t] = [@ EXCEPT !.ws = "open", !.pc = "receive"]]
    /\ UNCHANGED <<config, cancels, mainVars, fmtVars>>

ConnectOk(t) ==
    /\ t \in Tasks
    /\ sup[t].pc = "connect"
    /\ sup' = [sup EXCEPT ![t] = [@ EXCEPT !.ws = "open", !.pc = "send_filter"]]
    /\ UNCHANGED <<config, cancels, mainVars, fmtVars>>

\* ConnectFail with the exception escaping the task: gather raises in
\* monitor_events and the sibling tasks are cancelled
ConnectFailEscapes(t) ==
    /\ t \in Tasks
    /\ sup[t].pc = "connect"
    /\ sup' = [u \in Tasks |-> IF u = t THEN [sup[u] EXCEPT !.pc = "done"]
                                ELSE CancelAt(sup[u])]
    /\ UNCHANGED <<config, cancels, mainVars, fmtVars>>

ConnectFail(t) ==
    /\ t \in Tasks
    /\ sup[t].pc = "connect"
    /\ sup' = [sup EXCEPT ![t] = EnterFinally(@, "connect_failed")]
    /\ UNCHANGED <<config, cancels, mainVars, fmtVars>>

SendFilterOk(t) ==
    /\ t \in Tasks
    /\ sup[t].pc = "send_filter"
    /\ sup' = [sup EXCEPT ![t] = [@ EXCEPT !.pc = "receive"]]
    /\ UNCHANGED <<config, cancels, mainVars, fmtVars>>

SendFilterFail(t) ==
    /\ t \in Tasks
    /\ sup[t].pc = "send_filter"
    /\ sup' = [sup EXCEPT ![t] = EnterFinally(@, "send_failed")]
    /\ UNCHANGED <<config, cancels, mainVars, fmtVars>>

\* a TEXT frame that json.loads turns into a list of events
ReceiveText(t) ==
    /\ t \in Tasks
    /\ sup[t].pc = "receive"
    /\ \E batch \in Batches :
          /\ Delivered + Len(batch) <= MaxEvents
          /\ sup' = [sup EXCEPT ![t] =
                ProcessFrom([@ EXCEPT !.recvd = @ \o batch,
                                      !.cur = Len(sup[t].recvd) + 1],
                            Alert(t))]
    /\ UNCHANGED <<config, cancels, mainVars, fmtVars>>

\* a TEXT frame json.loads rejects
ReceiveBadJson(t) ==
    /\ t \in Tasks
    /\ sup[t].pc = "receive"
    /\ sup' = [sup EXCEPT ![t] = EnterFinally(@, "bad_batch")]
    /\ UNCHANGED <<config, cancels, mainVars, fmtVars>>

ReceivePing(t) ==
    /\ t \in Tasks
    /\ sup[t].pc = "receive"
    /\ sup' = [sup EXCEPT ![t] = [@ EXCEPT !.pc = "pong"]]
    /\ UNCHANGED <<config, cancels, mainVars, fmtVars>>

\* PongOk with the stream iteration ending after the pong
PongOkEndsStream(t) ==
    /\ t \in Tasks
    /\ sup[t].pc = "pong"
    /\ sup' = [sup EXCEPT ![t] = EnterFinally(@, "connection_error")]
    /\ UNCHANGED <<config, cancels, mainVars, fmtVars>>

PongOk(t) ==
    /\ t \in Tasks
    /\ sup[t].pc = "pong"
    /\ sup' = [sup EXCEPT ![t] = [@ EXCEPT !.pc = "receive"]]
    /\ UNCHANGED <<config, cancels, mainVars, fmtVars>>

PongFail(t) ==
    /\ t \in Tasks
    /\ sup[t].pc = "pong"
    /\ sup' = [sup EXCEPT ![t] = EnterFinally(@, "pong_failed")]
    /\ UNCHANGED <<config, cancels, mainVars, fmtVars>>

\* a CLOSE or ERROR message: raise ConnectionError
ReceiveClose(t) ==
    /\ t \in Tasks
    /\ sup[t].pc = "receive"
    /\ sup' = [sup EXCEPT ![t] = EnterFinally(@, "connection_error")]
    /\ UNCHANGED <<config, cancels, mainVars, fmtVars>>

\* any other message type: return [], and the task is in __anext__ again
ReceiveOther(t) ==
    /\ t \in Tasks
    /\ sup[t].pc = "receive"
    /\ sup' = [sup EXCEPT ![t] = [@ EXCEPT !.pc = "receive"]]
    /\ UNCHANGED <<config, cancels, mainVars, fmtVars>>

\* the response arrives and resp.json() parses it: 202 or not, trigger
\* logs and returns the result, and the for loop goes on
TriggerReturn(t) ==
    /\ t \in Tasks
    /\ sup[t].pc = "trigger"
    /\ sup' = [sup EXCEPT ![t] =
          ProcessFrom([EndCall(@) EXCEPT !.cur = @ + 1], Alert(t))]
    /\ UNCHANGED <<config, cancels, mainVars, fmtVars>>

\* TriggerRaise with the failure logged inside the for loop, which goes on
TriggerRaiseContinue(t) ==
    /\ t \in Tasks
    /\ sup[t].pc = "trigger"
    /\ sup' = [sup EXCEPT ![t] =
          ProcessFrom([EndCall(@) EXCEPT !.fail = "delivery_failed",
                                         !.cur = @ + 1], Alert(t))]
    /\ UNCHANGED <<config, cancels, mainVars, fmtVars>>

\* TriggerRaise with no except clause for it: the exception ends the task
TriggerRaiseKills(t) ==
    /\ t \in Tasks
    /\ sup[t].pc = "trigger"
    /\ sup' = [sup EXCEPT ![t] =
          [EnterFinally(EndCall(@), "delivery_failed") EXCEPT !.pc = "done"]]
    /\ UNCHANGED <<config, cancels, mainVars, fmtVars>>

\* TriggerRaise with the failed call made once more for the same event
TriggerRaiseRetry(t) ==
    /\ t \in Tasks
    /\ sup[t].pc = "trigger"
    /\ sup' = [sup EXCEPT ![t] =
          IF Len(@.calls) < MaxEvents + 1
          THEN [@ EXCEPT !.calls = Append(@, sup[t].cur)]
          ELSE EnterFinally(EndCall(@), "delivery_failed")]
    /\ UNCHANGED <<config, cancels, mainVars, fmtVars>>

\* session.post or resp.json() raises (aiohttp.ClientError, a body that
\* is not JSON)
TriggerRaise(t) ==
    /\ t \in Tasks
    /\ sup[t].pc = "trigger"
    /\ sup' = [sup EXCEPT ![t] = EnterFinally(EndCall(@), "delivery_failed")]
    /\ UNCHANGED <<config, cancels, mainVars, fmtVars>>

CloseWsOk(t) ==
    /\ t \in Tasks
    /\ sup[t].pc = "close_ws"
    /\ sup' = [sup EXCEPT ![t] = [@ EXCEPT !.ws = "closed", !.pc = "close_session"]]
    /\ UNCHANGED <<config, cancels, mainVars, fmtVars>>

\* ws.close() raises: close() raises, the bare except swallows it
CloseWsFail(t) ==
    /\ t \in Tasks
    /\ sup[t].pc = "close_ws"
    /\ sup' = [sup EXCEPT ![t] = AfterFinally(@)]
    /\ UNCHANGED <<config, cancels, mainVars, fmtVars>>

CloseSessionOk(t) ==
    /\ t \in Tasks
    /\ sup[t].pc = "close_session"
    /\ sup' = [sup EXCEPT ![t] = AfterFinally([@ EXCEPT !.session = "closed"])]
    /\ UNCHANGED <<config, cancels, mainVars, fmtVars>>

CloseSessionFail(t) ==
    /\ t \in Tasks
    /\ sup[t].pc = "close_session"
    /\ sup' = [sup EXCEPT ![t] = AfterFinally(@)]
    /\ UNCHANGED <<config, cancels, mainVars, fmtVars>>

\* asyncio.sleep(reconnect_delay) returns; while True: the next iteration
SleepDone(t) ==
    /\ t \in Tasks
    /\ sup[t].pc = "sleep"
    /\ sup' = [sup EXCEPT ![t] = BeginConnect(@)]
    /\ UNCHANGED <<config, cancels, mainVars, fmtVars>>

\* The process is cancelled: gather cancels every task that is not done.
Cancel ==
    /\ cancels < MaxCancels
    /\ \E t \in Tasks : sup[t].pc # "done"
    /\ sup' = [t \in Tasks |-> CancelAt(sup[t])]
    /\ cancels' = cancels + 1
    /\ UNCHANGED <<config, mainVars, fmtVars>>

\* every step of task t
TaskStep(t) ==
    \/ Start(t) \/ ConnectOk(t) \/ ConnectFail(t)
    \/ SendFilterOk(t) \/ SendFilterFail(t)
    \/ ReceiveText(t) \/ ReceiveBadJson(t) \/ ReceivePing(t)
    \/ PongOk(t) \/ PongFail(t) \/ ReceiveClose(t) \/ ReceiveOther(t)
    \/ TriggerReturn(t) \/ TriggerRaise(t)
    \/ CloseWsOk(t) \/ CloseWsFail(t) \/ CloseSessionOk(t) \/ CloseSessionFail(t)
    \/ SleepDone(t)

\* the steps that the runtime completes on its own: close() returns or
\* raises, the sleep timer fires
Recover(t) ==
    \/ CloseWsOk(t) \/ CloseWsFail(t) \/ CloseSessionOk(t) \/ CloseSessionFail(t)
    \/ SleepDone(t)

FmtIdle ==
    /\ fpc = "off"
    /\ fEvent = BareTx
    /\ fRule = HoSVoteCast
    /\ fOut = NoneVal

\* monitor_events with a single supervisor task for all the alerts
StartedOneSupervisor(c) ==
    /\ config = c
    /\ sup = [t \in {1} |-> NewTask]
    /\ cancels = 0

\* monitor_events(config) has created its tasks
Started(c) ==
    /\ config = c
    /\ sup = [t \in DOMAIN c.alerts |-> NewTask]
    /\ cancels = 0

\* main() read the routing key and awaits monitor_events(config), whose
\* "async with PagerDutyClient(...)" opened the client's session
MainRunning ==
    /\ env = Str(RoutingKey)
    /\ mainpc = "monitor_events"
    /\ pd = "open"

Init == Started(HouseOfStakeConfig) /\ MainRunning /\ FmtIdle

SoloInit == Started(FunctionCallConfig) /\ MainRunning /\ FmtIdle

Next ==
    \/ \E t \in TaskIds : Start(t)
    \/ \E t \in TaskIds : ConnectOk(t)
    \/ \E t \in TaskIds : ConnectFail(t)
    \/ \E t \in TaskIds : SendFilterOk(t)
    \/ \E t \in TaskIds : SendFilterFail(t)
    \/ \E t \in TaskIds : ReceiveText(t)
    \/ \E t \in TaskIds : ReceiveBadJson(t)
    \/ \E t \in TaskIds : ReceivePing(t)
    \/ \E t \in TaskIds : PongOk(t)
    \/ \E t \in TaskIds : PongFail(t)
    \/ \E t \in TaskIds : ReceiveClose(t)
    \/ \E t \in TaskIds : ReceiveOther(t)
    \/ \E t \in TaskIds : TriggerReturn(t)
    \/ \E t \in TaskIds : TriggerRaise(t)
    \/ \E t \in TaskIds : CloseWsOk(t)
    \/ \E t \in TaskIds : CloseWsFail(t)
    \/ \E t \in TaskIds : CloseSessionOk(t)
    \/ \E t \in TaskIds : CloseSessionFail(t)
    \/ \E t \in TaskIds : SleepDone(t)
    \/ Cancel

Spec == Init /\ [][Next]_vars

FairSpec == Spec /\ \A t \in TaskIds : WF_vars(Recover(t))

\* the monitor run with a configuration of one alert
SoloSpec == SoloInit /\ [][Next]_vars

FairSoloSpec == SoloSpec /\ \A t \in TaskIds : WF_vars(Recover(t))

(***************************************************************************)
(* The program from main().                                                *)
(***************************************************************************)
\* what os.environ.get("PAGERDUTY_ROUTING_KEY") may return: None (unset),
\* the empty string, or a key
EnvValues == {NoneVal, Str(""), Str(RoutingKey)}

\* no EventMonitorConfig was created yet
NoConfig ==
    [pagerduty_routing_key |-> "", alerts |-> <<>>, reconnect_delay_secs |-> 0]

\* create_house_of_stake_config(routing_key)
create_house_of_stake_config(routing_key) ==
    [HouseOfStakeConfig EXCEPT !.pagerduty_routing_key = routing_key]

\* asyncio.run(main()) has not run main yet
MainInit ==
    /\ env \in EnvValues
    /\ mainpc = "start"
    /\ pd = "none"
    /\ config = NoConfig
    /\ sup = <<>>
    /\ cancels = 0
    /\ FmtIdle

\* MainRun without the check of the routing key
MainRunUnchecked ==
    /\ mainpc = "start"
    /\ LET routing_key == IF env.kind = "str" THEN env.val ELSE ""
           c == create_house_of_stake_config(routing_key)
       IN  /\ mainpc' = "monitor_events"
           /\ config' = c
           /\ pd' = "open"
           /\ sup' = [t \in DOMAIN c.alerts |-> NewTask]
    /\ UNCHANGED <<cancels, env, fmtVars>>

\* main() up to its first suspension: ValueError if the routing key is
\* falsy; otherwise the configuration is built and monitor_events enters
\* the PagerDutyClient context, creates one task per alert and awaits gather
MainRun ==
    /\ mainpc = "start"
    /\ IF ~Truthy(env)
       THEN /\ mainpc' = "ValueError"
            /\ UNCHANGED <<config, pd, sup>>
       ELSE LET c == create_house_of_stake_config(env.val)
            IN  /\ mainpc' = "monitor_events"
                /\ config' = c
                /\ pd' = "open"
                /\ sup' = [t \in DOMAIN c.alerts |-> NewTask]
    /\ UNCHANGED <<cancels, env, fmtVars>>

MainNext ==
    \/ MainRun
    \/ Next

MainSpec == MainInit /\ [][MainNext]_vars

(***************************************************************************)
(* The pure functions applied to bounded inputs.                           *)
(***************************************************************************)
FmtInit ==
    /\ Started(HouseOfStakeConfig)
    /\ MainRunning
    /\ fpc = "idle"
    /\ fEvent \in Events
    /\ fRule \in FmtRules
    /\ fOut = NoneVal

CallFormatSummary ==
    /\ fpc = "idle"
    /\ fpc' = "format_event_summary"
    /\ fOut' = format_event_summary(fEvent, fRule.summary_template, fRule.name)
    /\ UNCHANGED <<supVars, mainVars, fEvent, fRule>>

CallGetDedupKey ==
    /\ fpc = "idle"
    /\ fpc' = "get_dedup_key"
    /\ fOut' = get_dedup_key(fEvent, fRule.dedup_key_template)
    /\ UNCHANGED <<supVars, mainVars, fEvent, fRule>>

CallGetExplorerLink ==
    /\ fpc = "idle"
    /\ fpc' = "get_explorer_link"
    /\ fOut' = get_explorer_link(fEvent, fRule.testnet)
    /\ UNCHANGED <<supVars, mainVars, fEvent, fRule>>

\* process_event, and the payload trigger builds when it is called
CallProcessEvent ==
    /\ fpc = "idle"
    /\ fpc' = "process_event"
    /\ LET out == process_event(fEvent, fRule)
       IN  fOut' = [call |-> out,
                    payload |->
                       TriggerPayload(RoutingKey, out.summary, out.source,
                                      out.severity, out.dedup_key, out.links)]
    /\ UNCHANGED <<supVars, mainVars, fEvent, fRule>>

\* process_event calls trigger, and the POST ends with resp
CallTrigger ==
    /\ fpc = "idle"
    /\ process_event(fEvent, fRule).kind = "trigger"
    /\ \E resp \in Responses :
          fOut' = [resp |-> resp, out |-> trigger(resp)]
    /\ fpc' = "trigger"
    /\ UNCHANGED <<supVars, mainVars, fEvent, fRule>>

FmtNext ==
    \/ CallFormatSummary
    \/ CallGetDedupKey
    \/ CallGetExplorerLink
    \/ CallProcessEvent
    \/ CallTrigger

FmtSpec == FmtInit /\ [][FmtNext]_vars

(***************************************************************************)
(* Properties of the monitor.                                              *)
(***************************************************************************)
\* a cancellation reaches every task that is not done, and no task is done
\* before the first one: it was delivered to every task once cancels > 0
CancelDelivered == cancels > 0

\* what ends a try block other than a cancellation
Failures == {"connect_failed", "send_failed", "bad_batch", "pong_failed",
             "connection_error", "format_failed", "delivery_failed"}

\* failures of process_event: the formatting or the delivery raised
ProcessingFailures == {"format_failed", "delivery_failed"}

\* the position and the failure of task t, if the configuration has it
PcOf(t) == IF t \in DOMAIN sup THEN sup[t].pc ELSE "absent"
FailOf(t) == IF t \in DOMAIN sup THEN sup[t].fail ELSE "absent"

\* the events trigger was called for
Called(s) == {s.calls[k] : k \in DOMAIN s.calls}

\* One step of task t seen from the ConnectionError of receive: it is
\* raised in Streaming only and leaves the task closing the stream; until
\* the next stream nothing is received or dispatched; the task goes from
\* closing to the reconnect delay and from the delay to the next connect
\* attempt, and ends only if it is cancelled during the delay.
C1_Step(t) ==
    LET s == sup[t]
        n == sup'[t]
    IN  /\ (s.fail # "connection_error" /\ n.fail = "connection_error") =>
              /\ s.pc = "receive"
              /\ n.pc \in Closing
              /\ n.closeCalled
        /\ (s.fail = "connection_error" /\ n # s) =>
              /\ n.calls = s.calls
              /\ n.recvd = s.recvd
              /\ s.pc \in Closing => n.pc \in Closing \cup {"sleep"}
              /\ s.pc = "sleep" =>
                    \/ n.pc = "connect" /\ n.fail = "none" /\ n.ws = "none"
                    \/ n.pc = "done" /\ cancels' > cancels
              /\ s.pc # "done"

\* C1: a ConnectionError from receive while Streaming takes the supervisor
\* to Disconnected, nothing more is dispatched from that connection, the
\* reconnect delay is taken exactly once and then a new connect attempt is
\* made; absent cancellation the supervisor does not terminate and the new
\* attempt is always reached, so the cycle repeats.
C1_ReconnectAfterConnectionError ==
    /\ [][\A t \in DOMAIN sup : C1_Step(t)]_vars
    /\ \A t \in TaskIds :
          (FailOf(t) = "connection_error" /\ cancels = 0)
             ~> (PcOf(t) = "connect" \/ cancels > 0)

\* a task waits the reconnect delay after a ConnectionError that followed
\* a dispatched event
C1_Witness ==
    \E t \in DOMAIN sup :
        /\ sup[t].fail = "connection_error"
        /\ sup[t].pc = "sleep"
        /\ sup[t].calls # <<>>
        /\ cancels = 0

C3_AtLeastOnce ==
    \A t \in DOMAIN sup :
        (sup[t].pc # "trigger" /\ ~CancelDelivered) =>
            \A i \in DOMAIN sup[t].recvd :
                process_event(sup[t].recvd[i], Alert(t)).kind = "trigger" =>
                    i \in Called(sup[t])

\* C4: a step of one task changes nothing of another task's state, and a
\* task that is not done can always take a step of its own, whatever the
\* other tasks wait for.
C4_Isolation ==
    /\ [][\A a \in DOMAIN sup :
             TaskStep(a) => \A b \in DOMAIN sup \ {a} : sup'[b] = sup[b]]_vars
    /\ [](\A b \in DOMAIN sup : sup[b].pc # "done" => ENABLED TaskStep(b))

\* one task is in the reconnect delay after a failed batch while the other
\* has dispatched an event and awaits the response
C4_Witness ==
    \E a, b \in DOMAIN sup :
        /\ a # b
        /\ sup[a].pc = "sleep"
        /\ sup[a].fail = "bad_batch"
        /\ sup[b].pc = "trigger"
        /\ cancels = 0

\* C5 as claimed: once the cancellation was delivered, a task is closing
\* its stream or done, never in the reconnect delay or a connect attempt
\* again; and a task that is done after it created a stream invoked
\* stream.close() on it.
C5_CancelStops ==
    \A t \in DOMAIN sup :
        CancelDelivered =>
            /\ sup[t].pc \in Closing \cup {"done"}
            /\ (sup[t].pc = "done" /\ sup[t].session # "none") =>
                    sup[t].closeCalled

\* C6: no failure ends a supervisor: a task is done only after a
\* cancellation; after any failure it is Disconnected (closing, then the
\* reconnect delay); and, absent cancellation, it makes another connect
\* attempt.
C6_AlwaysRecovers ==
    /\ [](\A t \in DOMAIN sup :
             /\ sup[t].pc = "done" => CancelDelivered
             /\ sup[t].fail \in Failures =>
                   sup[t].pc \in Disconnected \cup {"done"})
    /\ \A t \in TaskIds :
          (FailOf(t) \in Failures /\ cancels = 0)
             ~> (PcOf(t) = "connect" \/ cancels > 0)

\* a task is in the reconnect delay after its connect attempt failed on a
\* later iteration (events were received before)
C6_Witness ==
    \E t \in DOMAIN sup :
        /\ sup[t].fail = "connect_failed"
        /\ sup[t].pc = "sleep"
        /\ sup[t].recvd # <<>>
        /\ cancels = 0

\* C7: the trigger calls of a task are made in receipt order, and a call
\* starts only when the call before it has ended: only the latest call can
\* be in flight, and only while the task awaits it.
C7_ReceiptOrder ==
    \A t \in DOMAIN sup :
        LET s == sup[t]
        IN  /\ \A j, k \in DOMAIN s.calls : j < k => s.calls[j] < s.calls[k]
            /\ \A i \in s.inflight : s.calls # <<>> /\ i = s.calls[Len(s.calls)]
            /\ s.inflight # {} => s.pc = "trigger"
            /\ Called(s) \subseteq DOMAIN s.recvd

\* two events of one batch, the call for the first ended and the call for
\* the second in flight
C7_Witness ==
    \E t \in DOMAIN sup :
        /\ Len(sup[t].calls) = 2
        /\ sup[t].inflight = {2}
        /\ sup[t].pc = "trigger"

\* C12: trigger is called at most once for every received event, over the
\* whole run and across reconnects: no event occurs twice among the calls
\* of a task, every call is for a received event, and once the supervisor
\* has left the batch after a failure no call is pending for it.
C12_AtMostOnce ==
    \A t \in DOMAIN sup :
        LET s == sup[t]
        IN  /\ \A j, k \in DOMAIN s.calls : j # k => s.calls[j] # s.calls[k]
            /\ Len(s.calls) <= Len(s.recvd)
            /\ s.fail \in Failures => s.inflight = {}

\* two events were received, trigger was called for each, and the last call
\* raised: the task is in the reconnect delay
C12_Witness ==
    \E t \in DOMAIN sup :
        /\ sup[t].calls = <<1, 2>>
        /\ sup[t].fail = "delivery_failed"
        /\ sup[t].pc = "sleep"
        /\ cancels = 0

\* the steps of a frame that yields an empty batch: a ping is received,
\* the pong for it is sent, or a text frame holds an empty JSON array
C13_EmptyBatchStep(t) ==
    \/ ReceivePing(t)
    \/ PongOk(t)
    \/ ReceiveText(t) /\ sup'[t].recvd = sup[t].recvd

\* C13: a frame that yields an empty batch (a ping answered with a pong, an
\* empty JSON array) makes no trigger call and surfaces no event, and
\* leaves the supervisor Streaming on the same open connection: no
\* failure is recorded, close is not invoked, and no delay or connect
\* attempt follows from it.
C13_EmptyBatchKeepsStreaming ==
    [][\A t \in DOMAIN sup :
          C13_EmptyBatchStep(t) =>
              /\ sup'[t].calls = sup[t].calls
              /\ sup'[t].inflight = sup[t].inflight
              /\ sup'[t].recvd = sup[t].recvd
              /\ sup[t].pc \in Streaming /\ sup'[t].pc \in Streaming
              /\ sup[t].ws = "open" /\ sup'[t].ws = "open"
              /\ sup'[t].session = "open"
              /\ sup'[t].fail = "none"
              /\ ~sup'[t].closeCalled]_vars

\* a ping arrived on a connection that has dispatched an event, and the
\* task is sending the pong
C13_Witness ==
    \E t \in DOMAIN sup :
        /\ sup[t].pc = "pong"
        /\ Len(sup[t].calls) = 1
        /\ sup[t].inflight = {}
        /\ sup[t].ws = "open"
        /\ cancels = 0

C15_CloseReleasesBoth ==
    \A t \in DOMAIN sup :
        (sup[t].closeCalled /\ sup[t].pc \in {"sleep", "done"}) =>
            /\ sup[t].ws # "open"
            /\ sup[t].session # "open"

\* C17: when the routing key is unset or empty, main fails at once with
\* the ValueError and starts nothing: from its start the only step is the
\* failure, and the PagerDutyClient session is never opened, no
\* configuration is built, no supervisor task exists and so no connect
\* attempt is made.
C17_NoKeyNoMonitoring ==
    /\ [](~Truthy(env) =>
            /\ mainpc \in {"start", "ValueError"}
            /\ pd = "none"
            /\ config = NoConfig
            /\ DOMAIN sup = {}
            /\ \A t \in TaskIds : PcOf(t) = "absent")
    /\ [][(mainpc = "start" /\ ~Truthy(env)) => mainpc' = "ValueError"]_vars

\* main has failed with the ValueError on an empty routing key
C17_Witness ==
    /\ mainpc = "ValueError"
    /\ env = Str("")
    /\ pd = "none"

\* One step of task t seen from the connection's first messages: the
\* filter send begins only when the transport connect has succeeded; the
\* first receive follows only a filter send that succeeded, and Streaming
\* never goes back to a filter send; a connect or a filter send that does
\* not succeed leaves the task closing the stream with that failure (or
\* the cancellation); a connect attempt begins only at the task's start
\* or after the reconnect delay, on a stream with no websocket yet.
C19_Step(t) ==
    LET s == sup[t]
        n == sup'[t]
    IN  /\ (n.pc = "send_filter" /\ s.pc # "send_filter") =>
              s.pc = "connect" /\ n.ws = "open"
        /\ (n.pc \in Streaming /\ s.pc \notin Streaming) =>
              s.pc = "send_filter" /\ n.pc = "receive" /\ n.ws = "open"
        /\ (s.pc = "connect" /\ n.pc # "connect") =>
              \/ n.pc = "send_filter"
              \/ n.pc \in Closing /\ n.fail \in {"connect_failed", "cancel"}
        /\ (s.pc = "send_filter" /\ n.pc # "send_filter") =>
              \/ n.pc = "receive"
              \/ n.pc \in Closing /\ n.fail \in {"send_failed", "cancel"}
        /\ (n.pc = "connect" /\ s.pc # "connect") =>
              s.pc \in {"start", "sleep"} /\ n.ws = "none"
        /\ (s.pc \in Connecting /\ n.pc \in Connecting) =>
              n.recvd = s.recvd /\ n.calls = s.calls

\* C19: on every connection and reconnection the filter is sent exactly
\* once, after the transport connect succeeded and before any receive;
\* when the connect or the filter send fails, nothing is received on that
\* connection and the supervisor is Disconnected.
C19_FilterFirst ==
    /\ [][\A t \in DOMAIN sup : C19_Step(t)]_vars
    /\ [](\A t \in DOMAIN sup :
             /\ sup[t].pc \in Streaming => sup[t].ws = "open"
             /\ sup[t].fail \in {"connect_failed", "send_failed"} =>
                   sup[t].pc \in Disconnected \cup {"done"})

\* on a reconnection (events were received on an earlier connection) the
\* filter send failed, and the task is in the reconnect delay
C19_Witness ==
    \E t \in DOMAIN sup :
        /\ sup[t].fail = "send_failed"
        /\ sup[t].pc = "sleep"
        /\ sup[t].recvd # <<>>
        /\ cancels = 0

\* C20 as claimed: a connect attempt other than the task's first begins
\* only from the reconnect delay, after close was invoked on the previous
\* stream, and with the previous stream's websocket and session no longer
\* open, so that the supervisor never holds two open connections.
C20_OneConnectionAtATime ==
    [][\A t \in DOMAIN sup :
          (sup'[t].pc = "connect" /\ sup[t].pc \notin {"connect", "start"}) =>
              /\ sup[t].pc = "sleep"
              /\ sup[t].closeCalled
              /\ sup[t].ws # "open"
              /\ sup[t].session # "open"]_vars

(***************************************************************************)
(* Properties of the pure functions.                                       *)
(***************************************************************************)
\* the fallback summary: "<alert name>: Event from <account_id or unknown>"
FallbackSummary(event, alert) ==
    Str(alert.name \o ": Event from " \o
        (IF "account_id" \in DOMAIN event THEN event["account_id"] ELSE "unknown"))

\* a replacement field of the template that neither the event nor the
\* synthesized keywords supply
MissingSummaryField(event, alert) ==
    Placeholders(alert.summary_template) \ (DOMAIN event \cup SummaryKeywords) # {}

\* C8 as claimed: process_event of the vote event under "HoS: Vote Cast"
\* makes one trigger call whose payload has summary "House of Stake: Vote
\* cast on proposal", source "near:vote.dao", severity "info" and dedup_key
\* "hos-vote-abc123".
C8_VoteCastPayload ==
    (fpc = "process_event" /\ fEvent = VoteEvent /\ fRule = HoSVoteCast) =>
        /\ fOut.call.kind = "trigger"
        /\ fOut.call.ncalls = 1
        /\ fOut.payload.summary = "House of Stake: Vote cast on proposal"
        /\ fOut.payload.source = "near:vote.dao"
        /\ fOut.payload.severity = "info"
        /\ fOut.payload.has_dedup_key
        /\ fOut.payload.dedup_key = "hos-vote-abc123"

\* C9 as claimed: for every event and every rule whose summary template
\* names a field that is absent, also when the event carries account_id,
\* event_standard, event_event or alert_name, format_event_summary returns
\* the fallback summary and does not raise.
C9_SummaryFallback ==
    (fpc = "format_event_summary" /\ MissingSummaryField(fEvent, fRule)) =>
        fOut = FallbackSummary(fEvent, fRule)

\* the reference of C10: no template (None, or the empty string), no key;
\* every placeholder present, the substituted template; a placeholder
\* missing, transaction_id when present, otherwise receipt_id when
\* present, otherwise no key
C10_Reference(event, template) ==
    IF ~template.some \/ template.val = <<>> THEN NoneVal
    ELSE IF Placeholders(template.val) \subseteq DOMAIN event
    THEN Str(Render(template.val, event))
    ELSE IF "transaction_id" \in DOMAIN event THEN Str(event["transaction_id"])
    ELSE IF "receipt_id" \in DOMAIN event THEN Str(event["receipt_id"])
    ELSE NoneVal

\* two results that put the same dedup_key, or none, into the payload
SameKey(a, b) ==
    IF Truthy(a) THEN Truthy(b) /\ a.val = b.val ELSE ~Truthy(b)

\* C10 as claimed: get_dedup_key returns the key the reference gives (an
\* empty key and no key taken as the same), and without a dedup template
\* the payload carries no dedup_key.
C10_MatchesReference ==
    /\ fpc = "get_dedup_key" =>
          SameKey(fOut, C10_Reference(fEvent, fRule.dedup_key_template))
    /\ (fpc = "process_event" /\ fOut.call.kind = "trigger"
            /\ (~fRule.dedup_key_template.some
                  \/ fRule.dedup_key_template.val = <<>>)) =>
          ~fOut.payload.has_dedup_key

\* the reference as amended: an empty transaction_id counts as absent
C10_AmendedReference(event, template) ==
    IF ~template.some \/ template.val = <<>> THEN NoneVal
    ELSE IF Placeholders(template.val) \subseteq DOMAIN event
    THEN Str(Render(template.val, event))
    ELSE IF "transaction_id" \in DOMAIN event /\ event["transaction_id"] # ""
    THEN Str(event["transaction_id"])
    ELSE IF "receipt_id" \in DOMAIN event THEN Str(event["receipt_id"])
    ELSE NoneVal

\* C10 amended: get_dedup_key returns what the amended reference gives;
\* the payload carries a dedup_key exactly when that result is a non-empty
\* string, and then that string, so that no (or an empty) template gives a
\* payload without dedup_key.
C10_MatchesAmendedReference ==
    /\ fpc = "get_dedup_key" =>
          fOut = C10_AmendedReference(fEvent, fRule.dedup_key_template)
    /\ (fpc = "process_event" /\ fOut.call.kind = "trigger") =>
          LET key == C10_AmendedReference(fEvent, fRule.dedup_key_template)
          IN  /\ fOut.payload.has_dedup_key = (key.kind = "str" /\ key.val # "")
              /\ fOut.payload.has_dedup_key => fOut.payload.dedup_key = key.val
              /\ (~fRule.dedup_key_template.some
                    \/ fRule.dedup_key_template.val = <<>>) =>
                        ~fOut.payload.has_dedup_key

\* the template names a field the event lacks, the event's transaction_id
\* is empty, and get_dedup_key returned its receipt_id
C10_Witness ==
    /\ fpc = "get_dedup_key"
    /\ fRule = SignerKeyed
    /\ "signer_id" \notin DOMAIN fEvent
    /\ "transaction_id" \in DOMAIN fEvent
    /\ fEvent["transaction_id"] = ""
    /\ "receipt_id" \in DOMAIN fEvent
    /\ fOut = Str("r1")

\* what trigger gives its caller on a 202 response
SuccessOutcomes ==
    {[kind |-> o.kind, exc |-> o.exc, val |-> o.val] :
        o \in {trigger(r) : r \in {x \in Responses : x.status = 202}}}

\* C11 as claimed: on status 202 trigger returns a result exposing the
\* backend-issued dedup key; on any other status the caller gets a
\* delivery-failure outcome (an exception raised, or a delivery error
\* returned in place of the response body) that no 202 response gives;
\* exactly one POST is made per call.
C11_ReportsOutcome ==
    fpc = "trigger" =>
        /\ fOut.out.posts = 1
        /\ fOut.resp.status = 202 =>
              /\ fOut.out.kind = "return"
              /\ fOut.out.val.has_dedup_key
              /\ fOut.out.val.dedup_key = fOut.resp.body.dedup_key
        /\ fOut.resp.status # 202 =>
              /\ fOut.out.kind \in {"raise", "delivery_error"}
              /\ [kind |-> fOut.out.kind, exc |-> fOut.out.exc,
                  val |-> fOut.out.val] \notin SuccessOutcomes

\* the explorer host of a rule
C16_Host(rule) ==
    IF rule.testnet THEN "https://testnet.nearblocks.io" ELSE "https://nearblocks.io"

\* the link of C16, with has(event, field) deciding whether the event has
\* the field: the transaction link if it has a transaction_id, otherwise
\* the account link if it has an account_id, otherwise nothing
C16_Reference(event, rule, has(_, _)) ==
    IF has(event, "transaction_id")
    THEN [some |-> TRUE,
          href |-> C16_Host(rule) \o "/txns/" \o event["transaction_id"],
          text |-> "View Transaction"]
    ELSE IF has(event, "account_id")
    THEN [some |-> TRUE,
          href |-> C16_Host(rule) \o "/address/" \o event["account_id"],
          text |-> "View Contract"]
    ELSE NoLink

C16_Present(event, field) == field \in DOMAIN event
C16_NonEmpty(event, field) == field \in DOMAIN event /\ event[field] # ""

\* C16 as claimed: get_explorer_link returns the transaction link whenever
\* the event has a transaction_id, the account link when it has only an
\* account_id, nothing when it has neither, on the testnet host exactly for
\* a testnet rule.
C16_LinkByPresence ==
    fpc = "get_explorer_link" => fOut = C16_Reference(fEvent, fRule, C16_Present)

\* C16 amended: the same with "has" read as "has a non-empty": an empty
\* transaction_id or account_id counts as absent.
C16_LinkByNonEmpty ==
    fpc = "get_explorer_link" => fOut = C16_Reference(fEvent, fRule, C16_NonEmpty)

\* a testnet rule and an event with an empty transaction_id and an
\* account_id: the account link on the testnet host
C16_Witness ==
    /\ fpc = "get_explorer_link"
    /\ fRule.testnet
    /\ C16_Present(fEvent, "transaction_id")
    /\ ~C16_NonEmpty(fEvent, "transaction_id")
    /\ C16_NonEmpty(fEvent, "account_id")
    /\ fOut.href = "https://testnet.nearblocks.io/address/vote.dao"

\* C18: the summary of the payload trigger posts has at most 1024
\* characters: a summary longer than that is cut to exactly its first 1024
\* characters, a summary of at most 1024 characters is sent unchanged.
C18_SummaryTruncated ==
    (fpc = "process_event" /\ fOut.call.kind = "trigger") =>
        LET summary == fOut.call.summary
            sent == fOut.payload.summary
        IN  /\ Len(sent) <= 1024
            /\ Len(summary) > 1024 =>
                  /\ Len(sent) = 1024
                  /\ \A i \in 1..1024 :
                        SubSeq(sent, i, i) = SubSeq(summary, i, i)
            /\ Len(summary) <= 1024 => sent = summary

\* a summary of 1026 characters was formatted and 1024 were sent
C18_Witness ==
    /\ fpc = "process_event"
    /\ fOut.call.kind = "trigger"
    /\ Len(fOut.call.summary) = 1026
    /\ Len(fOut.payload.summary) = 1024

====
